---- MODULE Spec2Model ----
(***************************************************************************)
(* A model of the four codecs of LessUp/Encoding (C++):                    *)
(*   src/arithmetic/cpp/main.cpp   static-model arithmetic coder           *)
(*   src/range/cpp/main.cpp        static-model range coder                *)
(*   src/huffman/cpp/main.cpp      static-model Huffman coder              *)
(*   src/Run-Length/cpp/main.cpp   run-length coder                        *)
(*                                                                         *)
(* Each program is a state machine: one action per loop iteration of its   *)
(* encoder and of its decoder; the pure helpers are operators.  An encoded *)
(* file is a record (magic, count, 257 frequencies, payload) with the      *)
(* number of header bytes that are present, so that a short read of the    *)
(* header fails as istream::read does.                                     *)
(*                                                                         *)
(* Width.  TLC's integers are 32-bit, and the coders multiply a 32-bit     *)
(* range by a 24-bit total.  The registers are therefore modelled at a     *)
(* smaller width, named by STATE_BITS (arithmetic coder, 32 in the source) *)
(* and DIGIT_BITS (range coder: the unit it shifts out, 8 in the source,   *)
(* the register being 4 digits wide), and by COUNT_BITS (the RLE count, 32 *)
(* in the source).  Every constant derived from a width keeps the source's *)
(* relation to it (HALF_RANGE = FULL_RANGE >> 1, MAX_TOTAL = 2^(width-8)   *)
(* resp. 3 digits, RENORM_THRESHOLD = 3 digits).  Bytes stay 8 bits and    *)
(* the alphabet stays 257 symbols.                                         *)
(***************************************************************************)
EXTENDS Integers, Sequences, FiniteSets, TLC

VARIABLES
    codec,        \* which program runs: "arith", "range", "huffman", "rle",
                  \* or a unit run on its own: "bits", "scale_arith", "scale_range"
    pc,           \* position of the run
    data,         \* the input: bytes (codecs), bits ("bits"), a table ("scale_*")
    pos,          \* encoder: number of input items consumed
    freq,         \* the frequency table of the running encoder / decoder
    cumulative,   \* its cumulative table
    low, high,    \* interval registers of the running coder
    pendingBits,  \* ArithmeticEncoder::pendingBits
    code,         \* decoder code register
    search,       \* the binary search of decode_symbol: lo, hi, value
    bw,           \* BitWriter (buffer, bitsInBuffer, bytes put to the stream)
    br,           \* BitReader / byte cursor of the decoder
    file,         \* the encoded file
    tamper,       \* what happened to the file between encoder and decoder
    build,        \* Huffman: which of several equivalent queue entries the
                  \* standard library's priority_queue yields first in this build
    tree,         \* Huffman tree of the running encoder / decoder
    pq,           \* build_tree: the nodes in the priority queue
    heap,         \* Huffman nodes of this invocation: allocated, deleted
    node,         \* Huffman decoder: the walker
    current,      \* RLE encoder: current run value
    count,        \* RLE encoder: current run length
    out,          \* what the decoder has written
    result,       \* how the decoder ended
    encSyms,      \* log: symbols handed to the encoder, in order
    decSyms       \* log: symbols (bits for "bits") returned by the decoder

vars == <<codec, pc, data, pos, freq, cumulative, low, high, pendingBits, code, search,
          bw, br, file, tamper, build, tree, node, pq, heap, current, count, out,
          result,
          encSyms, decSyms>>

---------------------------------------------------------------------------
(* Bounds of the model *)

\* longest input drawn for the arithmetic, Huffman and RLE programs
MaxLen == 4
\* longest input drawn for the range coder
MaxRangeLen == 7
\* longest bit sequence drawn for the BitWriter / BitReader unit
MaxBits == 9
\* read_bit calls made after the last written bit has been read back
MaxExtraReads == 10
\* a decoder that has written this many bytes more than the input had is cut off
MaxOverrun == 2
\* width of the arithmetic coder's registers (source: 32)
STATE_BITS == 17
\* width of the unit the range coder shifts out (source: 8)
DIGIT_BITS == 3
\* width of the RLE count (source: 32)
COUNT_BITS == 2

\* byte values inputs are drawn from
ByteValues == {0, 1, 255}

---------------------------------------------------------------------------
(* Program constants *)

SYMBOL_LIMIT == 257
EOF_SYMBOL == SYMBOL_LIMIT - 1

FULL_RANGE == 2 ^ STATE_BITS
HALF_RANGE == FULL_RANGE \div 2
FIRST_QUARTER == HALF_RANGE \div 2
THIRD_QUARTER == FIRST_QUARTER * 3
MAX_TOTAL == 2 ^ (STATE_BITS - 8)

range_coder_WORD == 2 ^ (4 * DIGIT_BITS)
range_coder_DIGIT == 2 ^ DIGIT_BITS
range_coder_MAX_TOTAL == 2 ^ (3 * DIGIT_BITS)
RENORM_THRESHOLD == 2 ^ (3 * DIGIT_BITS)

\* bytes of a header: magic, count, 257 frequencies
MAGIC_LEN == 4
HEADER_LEN == MAGIC_LEN + 4 + 4 * SYMBOL_LIMIT

---------------------------------------------------------------------------
(* Helpers *)

SeqsUpTo(S, n) == UNION {[1..k -> S] : k \in 0..n}

Min(a, b) == IF a < b THEN a ELSE b

Prefix(s, n) == SubSeq(s, 1, n)

IsPrefix(s, t) == Len(s) <= Len(t) /\ s = SubSeq(t, 1, Len(s))

\* s[a] + .. + s[b], by halves (a table has 257 entries)
RECURSIVE SumRange(_, _, _)
SumRange(s, a, b) ==
    IF a > b THEN 0
    ELSE IF a = b THEN s[a]
    ELSE SumRange(s, a, (a + b) \div 2) + SumRange(s, (a + b) \div 2 + 1, b)

SumSeq(s, n) == SumRange(s, 1, n)

\* the sequence <<F(a), .., F(b)>>, built by halves
RECURSIVE Table(_, _, _)
Table(F(_), a, b) ==
    IF a > b THEN <<>>
    ELSE IF a = b THEN <<F(a)>>
    ELSE Table(F, a, (a + b) \div 2) \o Table(F, (a + b) \div 2 + 1, b)

\* <<(from + s[a]) % word, (from + s[a] + s[a+1]) % word, ..>> up to s[b]
RECURSIVE PrefixSums(_, _, _, _, _)
PrefixSums(s, a, b, from, word) ==
    IF a > b THEN <<>>
    ELSE IF a = b THEN <<(from + s[a]) % word>>
    ELSE LET mid == (a + b) \div 2
             left == PrefixSums(s, a, mid, from, word)
         IN  left \o PrefixSums(s, mid + 1, b, left[Len(left)], word)

NoTable == <<>>
NoWriter == [buffer |-> 0, bitsInBuffer |-> 0, bytes |-> <<>>]
NoReader == [pos |-> 0, currentByte |-> 0, bitsRemaining |-> 0, reachedEof |-> FALSE]
NoFile == [magic |-> "", count |-> 0, freq |-> NoTable, hdrLen |-> 0, payload |-> <<>>]
NoTree == [nodes |-> <<>>, root |-> 0]
NoSearch == [lo |-> 0, hi |-> 0, value |-> 0]

---------------------------------------------------------------------------
(* Bit I/O: BitWriter and BitReader (identical in the arithmetic and the   *)
(* Huffman program)                                                        *)

BitWriter == NoWriter

write_bit_lsb(w, bit) ==
    LET b == (w.buffer + (bit % 2) * 2 ^ w.bitsInBuffer) % 256
        n == w.bitsInBuffer + 1
    IN  IF n = 8
        THEN [buffer |-> 0, bitsInBuffer |-> 0, bytes |-> Append(w.bytes, b)]
        ELSE [buffer |-> b, bitsInBuffer |-> n, bytes |-> w.bytes]

\* buffer = (uint8_t)((buffer << 1) | (bit & 1)); put the byte when 8 bits are held
write_bit(w, bit) ==
    LET b == (w.buffer * 2 + (bit % 2)) % 256
        n == w.bitsInBuffer + 1
    IN  IF n = 8
        THEN [buffer |-> 0, bitsInBuffer |-> 0, bytes |-> Append(w.bytes, b)]
        ELSE [buffer |-> b, bitsInBuffer |-> n, bytes |-> w.bytes]

\* buffer <<= (8 - bitsInBuffer); put the byte
flush(w) ==
    IF w.bitsInBuffer > 0
    THEN [buffer |-> 0, bitsInBuffer |-> 0,
          bytes |-> Append(w.bytes, (w.buffer * 2 ^ (8 - w.bitsInBuffer)) % 256)]
    ELSE w

RECURSIVE write_bits(_, _, _)
write_bits(w, bits, i) ==
    IF i > Len(bits) THEN w ELSE write_bits(write_bit(w, bits[i]), bits, i + 1)

BitReader == NoReader

\* one read_bit over the bytes of the stream: the new reader and the bit
read_bit(r, bytes) ==
    IF r.bitsRemaining = 0 /\ r.pos >= Len(bytes)
    THEN [reader |-> [r EXCEPT !.reachedEof = TRUE], bit |-> 0]
    ELSE LET r1 == IF r.bitsRemaining = 0
                   THEN [r EXCEPT !.pos = r.pos + 1,
                                  !.currentByte = bytes[r.pos + 1],
                                  !.bitsRemaining = 8]
                   ELSE r
             n == r1.bitsRemaining - 1
         IN  [reader |-> [r1 EXCEPT !.bitsRemaining = n],
              bit |-> (r1.currentByte \div 2 ^ n) % 2]

eof(r) == r.reachedEof

---------------------------------------------------------------------------
(* Static model: the frequency and cumulative tables                       *)

RECURSIVE CountOf(_, _, _)
CountOf(s, b, n) ==
    IF n = 0 THEN 0 ELSE (IF s[n] = b THEN 1 ELSE 0) + CountOf(s, b, n - 1)

\* freq[b]++ for every byte, then freq[EOF_SYMBOL] = 1  (index i is symbol i-1)
count_bytes(bytes) ==
    Table(LAMBDA i : IF i - 1 = EOF_SYMBOL THEN 1 ELSE CountOf(bytes, i - 1, Len(bytes)),
          1, SYMBOL_LIMIT)

ScaleToNoFloor(f, maxTotal) ==
    LET total == SumSeq(f, Len(f))
    IN  IF total = 0 THEN Table(LAMBDA i : 1, 1, Len(f))
        ELSE IF total <= maxTotal THEN f
        ELSE Table(LAMBDA i : (f[i] * maxTotal) \div total, 1, Len(f))

\* the body shared by the two scale_frequencies
ScaleTo(f, maxTotal) ==
    LET total == SumSeq(f, Len(f))
        scaled == Table(LAMBDA i : IF f[i] = 0 THEN 0
                                   ELSE IF (f[i] * maxTotal) \div total = 0 THEN 1
                                   ELSE (f[i] * maxTotal) \div total, 1, Len(f))
        newTotal == SumSeq(scaled, Len(f))
        base == IF maxTotal \div Len(f) = 0 THEN 1 ELSE maxTotal \div Len(f)
    IN  IF total = 0 THEN Table(LAMBDA i : 1, 1, Len(f))
        ELSE IF total <= maxTotal THEN f
        ELSE IF newTotal = 0 THEN Table(LAMBDA i : base, 1, Len(f))
        ELSE scaled

scale_frequencies(f) == ScaleTo(f, MAX_TOTAL)

range_coder_scale_frequencies(f) == ScaleTo(f, range_coder_MAX_TOTAL)

MaxTotalOf(c) == IF c \in {"range", "scale_range"} THEN range_coder_MAX_TOTAL ELSE MAX_TOTAL

\* prefix sums in the table's unsigned width; (0,1,..,n) when the total is 0
build_cumulative(f, word) ==
    LET all == <<0>> \o PrefixSums(f, 1, Len(f), 0, word)
    IN  IF all[Len(f) + 1] = 0 THEN Table(LAMBDA i : i - 1, 1, Len(f) + 1) ELSE all

\* C[i] of the source is c[i + 1] here
Cum(c, i) == c[i + 1]

Total(c) == c[Len(c)]

\* the binary search of decode_symbol: lo = 0, hi = size - 1
RECURSIVE find_symbol(_, _, _, _)
find_symbol(c, value, lo, hi) ==
    IF lo + 1 < hi
    THEN LET mid == lo + (hi - lo) \div 2
         IN  IF Cum(c, mid) > value
             THEN find_symbol(c, value, lo, mid)
             ELSE find_symbol(c, value, mid, hi)
    ELSE lo

\* the header both interval coders and the Huffman coder write
Header(magic, f) ==
    [magic |-> magic, count |-> Len(f), freq |-> f, hdrLen |-> HEADER_LEN,
     payload |-> <<>>]

---------------------------------------------------------------------------
(* Arithmetic coder: src/arithmetic/cpp/main.cpp                           *)

ArithmeticEncoder == [low |-> 0, high |-> FULL_RANGE - 1, pendingBits |-> 0, w |-> BitWriter]

RECURSIVE write_pending(_, _, _)
write_pending(w, bit, n) ==
    IF n = 0 THEN w ELSE write_pending(write_bit(w, bit), bit, n - 1)

\* write the bit, then pendingBits copies of its complement
output_bit(e, bit) ==
    [e EXCEPT !.w = write_pending(write_bit(e.w, bit), 1 - bit, e.pendingBits),
              !.pendingBits = 0]

Shift(e) == [e EXCEPT !.low = e.low * 2, !.high = e.high * 2 + 1]

RECURSIVE encoder_renorm_no_underflow(_)
encoder_renorm_no_underflow(e) ==
    IF e.high < HALF_RANGE
    THEN encoder_renorm_no_underflow(Shift(output_bit(e, 0)))
    ELSE IF e.low >= HALF_RANGE
    THEN encoder_renorm_no_underflow(Shift([output_bit(e, 1) EXCEPT
                                               !.low = e.low - HALF_RANGE,
                                               !.high = e.high - HALF_RANGE]))
    ELSE e

\* the for (;;) loop of ArithmeticEncoder::encode_symbol
RECURSIVE encoder_renorm(_)
encoder_renorm(e) ==
    IF e.high < HALF_RANGE
    THEN encoder_renorm(Shift(output_bit(e, 0)))
    ELSE IF e.low >= HALF_RANGE
    THEN encoder_renorm(Shift([output_bit(e, 1) EXCEPT !.low = e.low - HALF_RANGE,
                                                       !.high = e.high - HALF_RANGE]))
    ELSE IF e.low >= FIRST_QUARTER /\ e.high < THIRD_QUARTER
    THEN encoder_renorm(Shift([e EXCEPT !.pendingBits = e.pendingBits + 1,
                                        !.low = e.low - FIRST_QUARTER,
                                        !.high = e.high - FIRST_QUARTER]))
    ELSE e

\* ArithmeticEncoder::encode_symbol
encode_symbol(e, symbol, c) ==
    LET range == e.high - e.low + 1
        total == Total(c)
        symLow == Cum(c, symbol)
        symHigh == Cum(c, symbol + 1)
    IN  encoder_renorm([e EXCEPT !.high = e.low + (range * symHigh) \div total - 1,
                                 !.low = e.low + (range * symLow) \div total])

finish_no_pending(e) ==
    LET e1 == output_bit(e, IF e.low < FIRST_QUARTER THEN 0 ELSE 1)
    IN  [e1 EXCEPT !.w = flush(e1.w)]

\* ArithmeticEncoder::finish
finish(e) ==
    LET e1 == output_bit([e EXCEPT !.pendingBits = e.pendingBits + 1],
                         IF e.low < FIRST_QUARTER THEN 0 ELSE 1)
    IN  [e1 EXCEPT !.w = flush(e1.w)]

\* code = (code << 1) | read_bit(), n times
RECURSIVE read_code(_, _, _)
read_code(d, bytes, n) ==
    IF n = 0 THEN d
    ELSE LET rb == read_bit(d.r, bytes)
         IN  read_code([d EXCEPT !.code = d.code * 2 + rb.bit, !.r = rb.reader],
                       bytes, n - 1)

\* the constructor: the first STATE_BITS bits of the payload
ArithmeticDecoder(bytes) ==
    read_code([low |-> 0, high |-> FULL_RANGE - 1, code |-> 0, r |-> BitReader],
              bytes, STATE_BITS)

DShift(d, bytes) ==
    LET rb == read_bit(d.r, bytes)
    IN  [d EXCEPT !.low = d.low * 2, !.high = d.high * 2 + 1,
                  !.code = d.code * 2 + rb.bit, !.r = rb.reader]

\* the for (;;) loop of ArithmeticDecoder::decode_symbol
RECURSIVE decoder_renorm(_, _)
decoder_renorm(d, bytes) ==
    IF d.high < HALF_RANGE
    THEN decoder_renorm(DShift(d, bytes), bytes)
    ELSE IF d.low >= HALF_RANGE
    THEN decoder_renorm(DShift([d EXCEPT !.low = d.low - HALF_RANGE,
                                         !.high = d.high - HALF_RANGE,
                                         !.code = d.code - HALF_RANGE], bytes), bytes)
    ELSE IF d.low >= FIRST_QUARTER /\ d.high < THIRD_QUARTER
    THEN decoder_renorm(DShift([d EXCEPT !.low = d.low - FIRST_QUARTER,
                                         !.high = d.high - FIRST_QUARTER,
                                         !.code = d.code - FIRST_QUARTER], bytes), bytes)
    ELSE d

\* ArithmeticDecoder::decode_symbol: the decoder after the call and the symbol
decode_symbol(d, c, bytes) ==
    LET range == d.high - d.low + 1
        total == Total(c)
        offset == d.code - d.low
        value == ((offset + 1) * total - 1) \div range
        symbol == find_symbol(c, value, 0, Len(c) - 1)
        symLow == Cum(c, symbol)
        symHigh == Cum(c, symbol + 1)
    IN  [dec |-> decoder_renorm(
                    [d EXCEPT !.high = d.low + (range * symHigh) \div total - 1,
                              !.low = d.low + (range * symLow) \div total], bytes),
         symbol |-> symbol]

\* build_frequencies_from_file: count, set the EOS entry, scale
build_frequencies_from_file(bytes) == scale_frequencies(count_bytes(bytes))

\* read_frequencies over a header of which hdrLen bytes are present
read_frequencies(f) ==
    IF f.hdrLen < MAGIC_LEN + 4 THEN "truncation"
    ELSE IF f.count # SYMBOL_LIMIT THEN "bad_header"
    ELSE IF f.hdrLen < HEADER_LEN THEN "truncation"
    ELSE "ok"

---------------------------------------------------------------------------
(* Range coder: src/range/cpp/main.cpp.  A digit is what the source calls  *)
(* a byte of the payload; the registers are uint32_t, 4 digits.            *)

RangeEncoder == [low |-> 0, high |-> range_coder_WORD - 1, out |-> <<>>]

\* (low_ ^ high_) < RENORM_THRESHOLD: the registers agree above the low 3 digits
SameTopDigit(lo, hi) == lo \div RENORM_THRESHOLD = hi \div RENORM_THRESHOLD

\* the while loop of RangeEncoder::encode_symbol
RECURSIVE range_coder_encoder_renorm(_)
range_coder_encoder_renorm(e) ==
    IF SameTopDigit(e.low, e.high)
    THEN range_coder_encoder_renorm(
             [low |-> (e.low * range_coder_DIGIT) % range_coder_WORD,
              high |-> (e.high * range_coder_DIGIT + (range_coder_DIGIT - 1))
                           % range_coder_WORD,
              out |-> Append(e.out, e.low \div RENORM_THRESHOLD)])
    ELSE e

\* the interval update both RangeEncoder and RangeDecoder make, in uint32_t
range_coder_narrow(lo, hi, symbol, c) ==
    LET range == hi - lo + 1
        total == Total(c)
        symLow == Cum(c, symbol)
        symHigh == Cum(c, symbol + 1)
    IN  [high |-> (lo + ((range * symHigh) \div total - 1)) % range_coder_WORD,
         low |-> (lo + (range * symLow) \div total) % range_coder_WORD]

\* RangeEncoder::encode_symbol
range_coder_encode_symbol(e, symbol, c) ==
    LET n == range_coder_narrow(e.low, e.high, symbol, c)
    IN  range_coder_encoder_renorm([e EXCEPT !.low = n.low, !.high = n.high])

\* RangeEncoder::finish: the 4 digits of low_, top first
RECURSIVE range_coder_finish_n(_, _)
range_coder_finish_n(e, n) ==
    IF n = 0 THEN e
    ELSE range_coder_finish_n(
             [e EXCEPT !.low = (e.low * range_coder_DIGIT) % range_coder_WORD,
                       !.out = Append(e.out, e.low \div RENORM_THRESHOLD)], n - 1)

range_coder_finish(e) == range_coder_finish_n(e, 4)

\* RangeDecoder::read_byte: the next digit, 0 past the end
read_byte(d, digits) ==
    IF d.pos < Len(digits)
    THEN [dec |-> [d EXCEPT !.pos = d.pos + 1], byte |-> digits[d.pos + 1]]
    ELSE [dec |-> d, byte |-> 0]

RECURSIVE range_coder_read_code(_, _, _)
range_coder_read_code(d, digits, n) ==
    IF n = 0 THEN d
    ELSE LET rb == read_byte(d, digits)
         IN  range_coder_read_code(
                 [rb.dec EXCEPT !.code = (d.code * range_coder_DIGIT + rb.byte)
                                             % range_coder_WORD],
                 digits, n - 1)

\* the constructor: code_ is the first 4 digits
RangeDecoder(digits) ==
    range_coder_read_code([low |-> 0, high |-> range_coder_WORD - 1, code |-> 0,
                           pos |-> 0], digits, 4)

\* the while loop of RangeDecoder::decode_symbol
RECURSIVE range_coder_decoder_renorm(_, _)
range_coder_decoder_renorm(d, digits) ==
    IF SameTopDigit(d.low, d.high)
    THEN LET rb == read_byte(d, digits)
         IN  range_coder_decoder_renorm(
                 [rb.dec EXCEPT
                     !.low = (d.low * range_coder_DIGIT) % range_coder_WORD,
                     !.high = (d.high * range_coder_DIGIT + (range_coder_DIGIT - 1))
                                  % range_coder_WORD,
                     !.code = (d.code * range_coder_DIGIT + rb.byte) % range_coder_WORD],
                 digits)
    ELSE d

\* RangeDecoder::decode_symbol: the decoder after the call and the symbol
range_coder_decode_symbol(d, c, digits) ==
    LET range == d.high - d.low + 1
        total == Total(c)
        offset == (d.code - d.low) % range_coder_WORD
        value == ((offset + 1) * total - 1) \div range
        symbol == find_symbol(c, value, 0, Len(c) - 1)
        n == range_coder_narrow(d.low, d.high, symbol, c)
    IN  [dec |-> range_coder_decoder_renorm([d EXCEPT !.low = n.low, !.high = n.high],
                                            digits),
         symbol |-> symbol]

\* build_frequencies_from_data
build_frequencies_from_data(bytes) == range_coder_scale_frequencies(count_bytes(bytes))

\* read_header, then the size check of decode, over a file of which hdrLen
\* header bytes are present (the table bytes of a count above 257 come out of
\* the payload)
read_header(f) ==
    IF f.hdrLen < MAGIC_LEN + 4 THEN "invalid_stream"
    ELSE IF f.magic # "RCNC" THEN "invalid_stream"
    ELSE IF f.count = 0 \/ f.count > 1024 THEN "invalid_stream"
    ELSE IF f.hdrLen + Len(f.payload) < MAGIC_LEN + 4 + 4 * f.count THEN "invalid_stream"
    ELSE IF f.count # SYMBOL_LIMIT THEN "bad_header"
    ELSE "ok"

---------------------------------------------------------------------------
(* Huffman coder: src/huffman/cpp/main.cpp.  A tree is an arena of nodes;  *)
(* a node is named by its index, 0 is nullptr.                             *)

Node(symbol, f, left, right) ==
    [symbol |-> symbol, freq |-> f, left |-> left, right |-> right]

is_leaf(n) == n.left = 0 /\ n.right = 0

\* NodeCmp(a, b): a comes after b in the queue
NodeCmp(a, b) == IF a.freq # b.freq THEN a.freq > b.freq ELSE a.symbol > b.symbol

\* pq.top(): an entry no other entry comes before; among several, the build's
top(nodes, q, bld) ==
    LET firsts == {i \in q : \A j \in q : ~NodeCmp(nodes[i], nodes[j])}
    IN  IF bld = "oldest"
        THEN CHOOSE i \in firsts : \A j \in firsts : i <= j
        ELSE CHOOSE i \in firsts : \A j \in firsts : i >= j

\* the leaves build_tree pushes: one per symbol of nonzero frequency, in order
RECURSIVE Leaves(_, _, _)
Leaves(f, a, b) ==
    IF a > b THEN <<>>
    ELSE IF a = b THEN (IF f[a] = 0 THEN <<>> ELSE <<Node(a - 1, f[a], 0, 0)>>)
    ELSE Leaves(f, a, (a + b) \div 2) \o Leaves(f, (a + b) \div 2 + 1, b)

merge_step_left_only(nodes, q, bld) ==
    LET a == top(nodes, q, bld)
        b == top(nodes, q \ {a}, bld)
        parent == Node(0, nodes[a].freq + nodes[b].freq, a, 0)
    IN  [nodes |-> Append(nodes, parent), q |-> (q \ {a, b}) \cup {Len(nodes) + 1}]

\* one iteration of while (pq.size() > 1): pop a, pop b, push their parent
merge_step(nodes, q, bld) ==
    LET a == top(nodes, q, bld)
        b == top(nodes, q \ {a}, bld)
        parent == Node(0, nodes[a].freq + nodes[b].freq, a, b)
    IN  [nodes |-> Append(nodes, parent), q |-> (q \ {a, b}) \cup {Len(nodes) + 1}]

\* while (pq.size() > 1) ..; return pq.top()
RECURSIVE merge(_, _, _)
merge(nodes, q, bld) ==
    IF Cardinality(q) > 1
    THEN LET m == merge_step(nodes, q, bld) IN merge(m.nodes, m.q, bld)
    ELSE [nodes |-> nodes, root |-> CHOOSE i \in q : TRUE]

build_tree_no_wrap(f, bld) ==
    LET leaves == Leaves(f, 1, Len(f))
    IN  IF Len(leaves) = 0
        THEN [nodes |-> <<Node(EOF_SYMBOL, 1, 0, 0)>>, root |-> 1]
        ELSE merge(leaves, 1..Len(leaves), bld)

\* build_tree
build_tree(f, bld) ==
    LET leaves == Leaves(f, 1, Len(f))
    IN  IF Len(leaves) = 0
        THEN [nodes |-> <<Node(EOF_SYMBOL, 1, 0, 0)>>, root |-> 1]
        ELSE IF Len(leaves) = 1
        THEN merge(Append(leaves, Node(0, leaves[1].freq, 1, 0)), {2}, bld)
        ELSE merge(leaves, 1..Len(leaves), bld)

\* build_codes: the (symbol, code) pairs of the leaves under node n
RECURSIVE build_codes(_, _, _)
build_codes(t, n, prefix) ==
    IF n = 0 THEN {}
    ELSE IF is_leaf(t.nodes[n])
    THEN {[symbol |-> t.nodes[n].symbol,
           code |-> IF prefix = <<>> THEN <<0>> ELSE prefix]}
    ELSE build_codes(t, t.nodes[n].left, Append(prefix, 0))
             \cup build_codes(t, t.nodes[n].right, Append(prefix, 1))

\* codes[sym]: the empty string for a symbol that has no leaf
codes(t, sym) ==
    LET cs == {c \in build_codes(t, t.root, <<>>) : c.symbol = sym}
    IN  IF cs = {} THEN <<>> ELSE (CHOOSE c \in cs : TRUE).code

destroy_tree_left_only(t, n) ==
    IF n = 0 THEN <<>>
    ELSE IF t.nodes[n].left = 0 THEN <<n>>
    ELSE <<t.nodes[n].left, n>>

\* destroy_tree(node): the nodes it deletes, in the order of the deletes
RECURSIVE destroy_tree(_, _)
destroy_tree(t, n) ==
    IF n = 0 THEN <<>>
    ELSE destroy_tree(t, t.nodes[n].left) \o destroy_tree(t, t.nodes[n].right) \o <<n>>

\* no invocation has allocated a node
NoHeap == [allocated |-> {}, deleted |-> <<>>]

\* the nodes build_tree has allocated with new Node
Allocated(t) == [allocated |-> 1..Len(t.nodes), deleted |-> <<>>]

\* destroy_tree(root)
Freed(h, t) == [h EXCEPT !.deleted = @ \o destroy_tree(t, t.root)]

\* build_frequencies_from_file of the Huffman program: no scaling
huffman_build_frequencies_from_file(bytes) == count_bytes(bytes)

\* read_frequencies of the Huffman program
huffman_read_frequencies(f) ==
    IF f.hdrLen < MAGIC_LEN + 4 THEN "truncation"
    ELSE IF f.count # SYMBOL_LIMIT THEN "bad_header"
    ELSE IF f.hdrLen < HEADER_LEN THEN "truncation"
    ELSE "ok"

---------------------------------------------------------------------------
(* Run-length coder: src/Run-Length/cpp/main.cpp                           *)

\* the largest count, 0xFFFFFFFF in the source
COUNT_MAX == 2 ^ COUNT_BITS - 1

\* write_u32_le: four bytes, low to high
write_u32_le(v) ==
    <<v % 256, (v \div 256) % 256, (v \div 65536) % 256, (v \div 16777216) % 256>>

read_u32_le_no_badbit(bytes, p) ==
    LET got == Min(4, Len(bytes) - p)
    IN  IF got # 4 THEN [status |-> "eof", value |-> 0]
        ELSE [status |-> "ok",
              value |-> bytes[p + 1] + 256 * bytes[p + 2] + 65536 * bytes[p + 3]
                            + 16777216 * bytes[p + 4]]

\* read_u32_le at byte p of the stream: a clean end, a partial read, or a value
read_u32_le(bytes, p) ==
    LET got == Min(4, Len(bytes) - p)
    IN  IF got = 0 THEN [status |-> "eof", value |-> 0]
        ELSE IF got # 4 THEN [status |-> "truncation", value |-> 0]
        ELSE [status |-> "ok",
              value |-> bytes[p + 1] + 256 * bytes[p + 2] + 65536 * bytes[p + 3]
                            + 16777216 * bytes[p + 4]]

RecordValueFirst(n, value) == <<value>> \o write_u32_le(n)

\* one (count, value) record
Record(n, value) == write_u32_le(n) \o <<value>>

---------------------------------------------------------------------------
(* Inputs and the initial state                                            *)

\* tables handed to scale_frequencies: counts at symbols 0, 1, 255 and EOS
ScaleCounts(m) == {0, 1, m \div 2, m, 2 * m, 4 * m + 1}

ScaleTables(m) ==
    {Table(LAMBDA i : IF i = 1 THEN a ELSE IF i = 2 THEN b ELSE IF i = 256 THEN c
                      ELSE IF i = SYMBOL_LIMIT THEN e ELSE 0, 1, SYMBOL_LIMIT) :
     a \in ScaleCounts(m), b \in ScaleCounts(m), c \in {0, 1, 2 * m}, e \in {0, 1}}

\* tables handed to build_tree: those of the inputs, and tables with no EOS
\* entry, with one entry, with none
TreeTables ==
    {huffman_build_frequencies_from_file(b) : b \in SeqsUpTo(ByteValues, MaxLen)}
        \cup {Table(LAMBDA i : IF i = 1 THEN a ELSE IF i = 2 THEN b ELSE 0,
                    1, SYMBOL_LIMIT) : a \in {0, 1, 2}, b \in {0, 1}}

Inputs(c) ==
    CASE c = "bits" -> SeqsUpTo({0, 1}, MaxBits)
      [] c = "build_tree" -> TreeTables
      [] c = "scale_arith" -> ScaleTables(MAX_TOTAL)
      [] c = "scale_range" -> ScaleTables(range_coder_MAX_TOTAL)
      [] c = "range" -> SeqsUpTo(ByteValues, MaxRangeLen)
      [] OTHER -> SeqsUpTo(ByteValues, MaxLen)

InitOf(c) ==
    /\ codec = c
    /\ pc = "start"
    /\ data \in Inputs(c)
    /\ pos = 0
    /\ freq = NoTable
    /\ cumulative = NoTable
    /\ low = 0
    /\ high = 0
    /\ pendingBits = 0
    /\ code = 0
    /\ search = NoSearch
    /\ bw = NoWriter
    /\ br = NoReader
    /\ file = NoFile
    /\ tamper = "none"
    /\ build \in (IF c \in {"huffman", "build_tree"} THEN {"oldest", "newest"}
                  ELSE {"oldest"})
    /\ tree = NoTree
    /\ node = 0
    /\ pq = {}
    /\ heap = NoHeap
    /\ current = 0
    /\ count = 0
    /\ out = <<>>
    /\ result = "none"
    /\ encSyms = <<>>
    /\ decSyms = <<>>

\* groups of variables an action leaves alone
input_vars == <<codec, data, build>>
model_vars == <<freq, cumulative>>
coder_vars == <<low, high, pendingBits, code>>
huffman_vars == <<tree, node, pq, heap>>
rle_vars == <<current, count>>
decoder_vars == <<br, out, result, decSyms>>

\* the decoder stops being followed once it has overrun the input by MaxOverrun
Followed == Len(out) < Len(data) + MaxOverrun

---------------------------------------------------------------------------
(* BitWriter then BitReader on their own                                   *)

BitsWrite ==
    /\ codec = "bits" /\ pc = "start" /\ pos < Len(data)
    /\ bw' = write_bit(bw, data[pos + 1])
    /\ pos' = pos + 1
    /\ encSyms' = Append(encSyms, data[pos + 1])
    /\ UNCHANGED <<input_vars, search, pc, model_vars, coder_vars, file, tamper,
                   huffman_vars, rle_vars, decoder_vars>>

BitsFlush ==
    /\ codec = "bits" /\ pc = "start" /\ pos = Len(data)
    /\ bw' = flush(bw)
    /\ file' = [NoFile EXCEPT !.payload = bw'.bytes]
    /\ pc' = "reading"
    /\ UNCHANGED <<input_vars, search, pos, model_vars, coder_vars, tamper,
                   huffman_vars, rle_vars, decoder_vars, encSyms>>

BitsRead ==
    /\ codec = "bits" /\ pc = "reading"
    /\ Len(decSyms) < Len(data) + MaxExtraReads
    /\ LET rb == read_bit(br, file.payload)
       IN  /\ br' = rb.reader
           /\ decSyms' = Append(decSyms, rb.bit)
    /\ UNCHANGED <<input_vars, search, pc, pos, model_vars, coder_vars, bw, file, tamper,
                   huffman_vars, rle_vars, out, result, encSyms>>

NextBits == BitsWrite \/ BitsFlush \/ BitsRead

---------------------------------------------------------------------------
(* scale_frequencies on its own                                            *)

ScaleArith ==
    /\ codec = "scale_arith" /\ pc = "start"
    /\ freq' = scale_frequencies(data)
    /\ pc' = "done"
    /\ UNCHANGED <<input_vars, search, pos, cumulative, coder_vars, bw, file, tamper,
                   huffman_vars, rle_vars, decoder_vars, encSyms>>

ScaleRange ==
    /\ codec = "scale_range" /\ pc = "start"
    /\ freq' = range_coder_scale_frequencies(data)
    /\ pc' = "done"
    /\ UNCHANGED <<input_vars, search, pos, cumulative, coder_vars, bw, file, tamper,
                   huffman_vars, rle_vars, decoder_vars, encSyms>>

NextScale == ScaleArith \/ ScaleRange

---------------------------------------------------------------------------
(* Arithmetic coder: compress_file and decompress_file                     *)

\* compress_file up to the symbol loop: tables, magic, header, encoder
ArithCompressStart ==
    /\ codec = "arith" /\ pc = "start"
    /\ freq' = build_frequencies_from_file(data)
    /\ cumulative' = build_cumulative(freq', FULL_RANGE)
    /\ file' = Header("AENC", freq')
    /\ low' = ArithmeticEncoder.low
    /\ high' = ArithmeticEncoder.high
    /\ pendingBits' = ArithmeticEncoder.pendingBits
    /\ bw' = ArithmeticEncoder.w
    /\ pc' = "encoding"
    /\ UNCHANGED <<input_vars, search, pos, code, tamper, huffman_vars, rle_vars,
                   decoder_vars, encSyms>>

Encoder == [low |-> low, high |-> high, pendingBits |-> pendingBits, w |-> bw]

\* one iteration of while (in.get(c)) encoder.encode_symbol(sym, cumulative)
ArithEncodeByte ==
    /\ codec = "arith" /\ pc = "encoding" /\ pos < Len(data)
    /\ LET e == encode_symbol(Encoder, data[pos + 1], cumulative)
       IN  /\ low' = e.low
           /\ high' = e.high
           /\ pendingBits' = e.pendingBits
           /\ bw' = e.w
    /\ pos' = pos + 1
    /\ encSyms' = Append(encSyms, data[pos + 1])
    /\ UNCHANGED <<input_vars, search, pc, model_vars, code, file, tamper, huffman_vars,
                   rle_vars, decoder_vars>>

\* input exhausted: encode_symbol(EOF_SYMBOL), finish()
ArithEncodeEOS ==
    /\ codec = "arith" /\ pc = "encoding" /\ pos = Len(data)
    /\ LET e == finish(encode_symbol(Encoder, EOF_SYMBOL, cumulative))
       IN  /\ low' = e.low
           /\ high' = e.high
           /\ pendingBits' = e.pendingBits
           /\ bw' = e.w
           /\ file' = [file EXCEPT !.payload = e.w.bytes]
    /\ encSyms' = Append(encSyms, EOF_SYMBOL)
    /\ pc' = "encoded"
    /\ UNCHANGED <<input_vars, search, pos, model_vars, code, tamper, huffman_vars,
                   rle_vars, decoder_vars>>

\* decompress_file up to the symbol loop: magic, header, tables, decoder
ArithDecompressStart ==
    /\ codec = "arith" /\ pc = "encoded"
    /\ IF file.hdrLen < MAGIC_LEN \/ file.magic # "AENC"
       THEN /\ result' = "bad_magic" /\ pc' = "done"
            /\ UNCHANGED <<model_vars, coder_vars, br>>
       ELSE IF read_frequencies(file) # "ok"
       THEN /\ result' = read_frequencies(file) /\ pc' = "done"
            /\ UNCHANGED <<model_vars, coder_vars, br>>
       ELSE LET d == ArithmeticDecoder(file.payload)
            IN  /\ freq' = file.freq
                /\ cumulative' = build_cumulative(file.freq, FULL_RANGE)
                /\ low' = d.low
                /\ high' = d.high
                /\ code' = d.code
                /\ br' = d.r
                /\ pendingBits' = 0
                /\ pc' = "decoding"
                /\ UNCHANGED result
    /\ UNCHANGED <<input_vars, search, pos, bw, file, tamper, huffman_vars, rle_vars,
                   out, encSyms, decSyms>>

Decoder == [low |-> low, high |-> high, code |-> code, r |-> br]

\* one iteration of the for (;;) of decompress_file
ArithDecodeSymbol ==
    /\ codec = "arith" /\ pc = "decoding" /\ Followed
    /\ LET ds == decode_symbol(Decoder, cumulative, file.payload)
       IN  /\ low' = ds.dec.low
           /\ high' = ds.dec.high
           /\ code' = ds.dec.code
           /\ br' = ds.dec.r
           /\ decSyms' = Append(decSyms, ds.symbol)
           /\ IF ds.symbol = EOF_SYMBOL
              THEN /\ pc' = "done" /\ result' = "ok" /\ UNCHANGED out
              ELSE /\ out' = Append(out, ds.symbol % 256) /\ UNCHANGED <<pc, result>>
    /\ UNCHANGED <<input_vars, search, pos, model_vars, pendingBits, bw, file, tamper,
                   huffman_vars, rle_vars, encSyms>>

NextArith ==
    \/ ArithCompressStart \/ ArithEncodeByte \/ ArithEncodeEOS
    \/ ArithDecompressStart \/ ArithDecodeSymbol

---------------------------------------------------------------------------
(* Range coder: range_coder::encode and range_coder::decode                *)

\* encode up to the symbol loop: tables, header, encoder
RangeEncodeStart ==
    /\ codec = "range" /\ pc = "start"
    /\ freq' = build_frequencies_from_data(data)
    /\ cumulative' = build_cumulative(freq', range_coder_WORD)
    /\ file' = Header("RCNC", freq')
    /\ low' = RangeEncoder.low
    /\ high' = RangeEncoder.high
    /\ pc' = "encoding"
    /\ UNCHANGED <<input_vars, search, pos, pendingBits, code, bw, tamper, huffman_vars,
                   rle_vars, decoder_vars, encSyms>>

REncoder == [low |-> low, high |-> high, out |-> file.payload]

\* one iteration of for (uint8_t b : data) encoder.encode_symbol(b, cumulative)
RangeEncodeByte ==
    /\ codec = "range" /\ pc = "encoding" /\ pos < Len(data)
    /\ LET e == range_coder_encode_symbol(REncoder, data[pos + 1], cumulative)
       IN  /\ low' = e.low
           /\ high' = e.high
           /\ file' = [file EXCEPT !.payload = e.out]
    /\ pos' = pos + 1
    /\ encSyms' = Append(encSyms, data[pos + 1])
    /\ UNCHANGED <<input_vars, search, pc, model_vars, pendingBits, code, bw, tamper,
                   huffman_vars, rle_vars, decoder_vars>>

\* after the loop: encode_symbol(EOF_SYMBOL), finish()
RangeEncodeEOS ==
    /\ codec = "range" /\ pc = "encoding" /\ pos = Len(data)
    /\ LET e == range_coder_finish(
                    range_coder_encode_symbol(REncoder, EOF_SYMBOL, cumulative))
       IN  /\ low' = e.low
           /\ high' = e.high
           /\ file' = [file EXCEPT !.payload = e.out]
    /\ encSyms' = Append(encSyms, EOF_SYMBOL)
    /\ pc' = "encoded"
    /\ UNCHANGED <<input_vars, search, pos, model_vars, pendingBits, code, bw, tamper,
                   huffman_vars, rle_vars, decoder_vars>>

\* decode up to the symbol loop: header, tables, the empty-payload return, decoder
RangeDecodeStart ==
    /\ codec = "range" /\ pc = "encoded"
    /\ IF read_header(file) # "ok"
       THEN /\ result' = read_header(file) /\ pc' = "done"
            /\ UNCHANGED <<model_vars, low, high, code, br>>
       ELSE IF Len(file.payload) = 0
       THEN /\ result' = "ok" /\ pc' = "done"
            /\ freq' = file.freq
            /\ cumulative' = build_cumulative(file.freq, range_coder_WORD)
            /\ UNCHANGED <<low, high, code, br>>
       ELSE LET d == RangeDecoder(file.payload)
            IN  /\ freq' = file.freq
                /\ cumulative' = build_cumulative(file.freq, range_coder_WORD)
                /\ low' = d.low
                /\ high' = d.high
                /\ code' = d.code
                /\ br' = [NoReader EXCEPT !.pos = d.pos]
                /\ pc' = "decoding"
                /\ UNCHANGED result
    /\ UNCHANGED <<input_vars, search, pos, pendingBits, bw, file, tamper, huffman_vars,
                   rle_vars, out, encSyms, decSyms>>

RDecoder == [low |-> low, high |-> high, code |-> code, pos |-> br.pos]

\* one iteration of the for (;;) of decode
RangeDecodeSymbol ==
    /\ codec = "range" /\ pc = "decoding" /\ Followed
    /\ LET ds == range_coder_decode_symbol(RDecoder, cumulative, file.payload)
       IN  /\ low' = ds.dec.low
           /\ high' = ds.dec.high
           /\ code' = ds.dec.code
           /\ br' = [br EXCEPT !.pos = ds.dec.pos]
           /\ decSyms' = Append(decSyms, ds.symbol)
           /\ IF ds.symbol = EOF_SYMBOL
              THEN /\ pc' = "done" /\ result' = "ok" /\ UNCHANGED out
              ELSE /\ out' = Append(out, ds.symbol % 256) /\ UNCHANGED <<pc, result>>
    /\ UNCHANGED <<input_vars, search, pos, model_vars, pendingBits, bw, file, tamper,
                   huffman_vars, rle_vars, encSyms>>

NextRange ==
    \/ RangeEncodeStart \/ RangeEncodeByte \/ RangeEncodeEOS
    \/ RangeDecodeStart \/ RangeDecodeSymbol

---------------------------------------------------------------------------
(* Huffman coder: compress_file and decompress_file                        *)

\* compress_file up to the byte loop: frequencies, tree, codes, magic, header
HuffCompressStart ==
    /\ codec = "huffman" /\ pc = "start"
    /\ freq' = huffman_build_frequencies_from_file(data)
    /\ tree' = build_tree(freq', build)
    /\ heap' = Allocated(tree')
    /\ file' = Header("HFMN", freq')
    /\ bw' = BitWriter
    /\ pc' = "encoding"
    /\ UNCHANGED <<input_vars, search, pos, cumulative, coder_vars, tamper, node, pq,
                   rle_vars, decoder_vars, encSyms>>

\* one iteration of while (in.get(c)): the bits of codes[sym]
HuffEncodeByte ==
    /\ codec = "huffman" /\ pc = "encoding" /\ pos < Len(data)
    /\ bw' = write_bits(bw, codes(tree, data[pos + 1]), 1)
    /\ pos' = pos + 1
    /\ encSyms' = Append(encSyms, data[pos + 1])
    /\ UNCHANGED <<input_vars, search, pc, model_vars, coder_vars, file, tamper,
                   huffman_vars, rle_vars, decoder_vars>>

\* after the loop: the bits of codes[EOF_SYMBOL], flush, destroy_tree
HuffEncodeEOS ==
    /\ codec = "huffman" /\ pc = "encoding" /\ pos = Len(data)
    /\ bw' = flush(write_bits(bw, codes(tree, EOF_SYMBOL), 1))
    /\ file' = [file EXCEPT !.payload = bw'.bytes]
    /\ heap' = Freed(heap, tree)
    /\ tree' = NoTree
    /\ encSyms' = Append(encSyms, EOF_SYMBOL)
    /\ pc' = "encoded"
    /\ UNCHANGED <<input_vars, search, pos, model_vars, coder_vars, tamper, node, pq,
                   rle_vars, decoder_vars>>

\* decompress_file up to the bit loop: magic, header, tree
HuffDecompressStart ==
    /\ codec = "huffman" /\ pc = "encoded"
    /\ IF file.hdrLen < MAGIC_LEN \/ file.magic # "HFMN"
       THEN /\ result' = "bad_magic" /\ pc' = "done"
            /\ heap' = NoHeap
            /\ UNCHANGED <<freq, tree, node, pq>>
       ELSE IF huffman_read_frequencies(file) # "ok"
       THEN /\ result' = huffman_read_frequencies(file) /\ pc' = "done"
            /\ heap' = NoHeap
            /\ UNCHANGED <<freq, tree, node, pq>>
       ELSE /\ freq' = file.freq
            /\ tree' = build_tree(file.freq, build)
            /\ heap' = Allocated(tree')
            /\ node' = tree'.root
            /\ pc' = "decoding"
            /\ UNCHANGED <<result, pq>>
    /\ UNCHANGED <<input_vars, search, pos, cumulative, coder_vars, bw, br, file, tamper,
                   rle_vars, out, encSyms, decSyms>>

decode_status_ok_unless_null(sawEOF, ok) == ok

\* after the loop: if (!sawEOF) ok = false; return ok
decode_status(sawEOF, ok) == IF ~sawEOF THEN FALSE ELSE ok

Status(sawEOF, ok) ==
    IF decode_status(sawEOF, ok) THEN "ok" ELSE "corrupt_or_truncated"

\* one iteration of the while (true) of decompress_file: one bit
HuffDecodeBit ==
    /\ codec = "huffman" /\ pc = "decoding"
    /\ LET rb == read_bit(br, file.payload)
           n == IF rb.bit = 0 THEN tree.nodes[node].left ELSE tree.nodes[node].right
       IN  /\ br' = rb.reader
           /\ IF n = 0
              THEN \* a null child: ok = false
                   /\ pc' = "done" /\ result' = Status(FALSE, FALSE)
                   /\ tree' = NoTree /\ node' = 0 /\ heap' = Freed(heap, tree)
                   /\ UNCHANGED <<out, decSyms>>
              ELSE IF is_leaf(tree.nodes[n]) /\ tree.nodes[n].symbol = EOF_SYMBOL
              THEN \* sawEOF = true
                   /\ pc' = "done" /\ result' = Status(TRUE, TRUE)
                   /\ tree' = NoTree /\ node' = 0 /\ heap' = Freed(heap, tree)
                   /\ decSyms' = Append(decSyms, EOF_SYMBOL)
                   /\ UNCHANGED out
              ELSE IF is_leaf(tree.nodes[n])
              THEN /\ out' = Append(out, tree.nodes[n].symbol % 256)
                   /\ decSyms' = Append(decSyms, tree.nodes[n].symbol)
                   /\ IF eof(rb.reader)
                      THEN \* the walker is back at the root and the reader at
                           \* its end: break with sawEOF false
                           /\ pc' = "done" /\ result' = Status(FALSE, TRUE)
                           /\ tree' = NoTree /\ node' = 0 /\ heap' = Freed(heap, tree)
                      ELSE /\ node' = tree.root /\ UNCHANGED <<pc, result, tree, heap>>
              ELSE /\ node' = n
                   /\ IF eof(rb.reader) /\ n = tree.root
                      THEN /\ pc' = "done" /\ result' = Status(FALSE, TRUE)
                           /\ tree' = NoTree /\ heap' = Freed(heap, tree)
                      ELSE UNCHANGED <<pc, result, tree, heap>>
                   /\ UNCHANGED <<out, decSyms>>
    /\ UNCHANGED <<input_vars, search, pos, model_vars, coder_vars, bw, file, tamper, pq,
                   rle_vars, encSyms>>

NextHuffman ==
    \/ HuffCompressStart \/ HuffEncodeByte \/ HuffEncodeEOS
    \/ HuffDecompressStart \/ HuffDecodeBit

---------------------------------------------------------------------------
(* Run-length coder: rle_encode_file and rle_decode_file                   *)

\* the first in.get(c): an empty input gives an empty file
RleEncodeStart ==
    /\ codec = "rle" /\ pc = "start"
    /\ file' = NoFile
    /\ IF Len(data) = 0
       THEN /\ pc' = "encoded" /\ UNCHANGED <<pos, rle_vars>>
       ELSE /\ current' = data[1] /\ count' = 1 /\ pos' = 1 /\ pc' = "encoding"
    /\ UNCHANGED <<input_vars, search, model_vars, coder_vars, bw, tamper, huffman_vars,
                   decoder_vars, encSyms>>

RleEncodeByteUncapped ==
    /\ codec = "rle" /\ pc = "encoding" /\ pos < Len(data)
    /\ LET b == data[pos + 1]
       IN  IF b = current
           THEN /\ count' = count + 1
                /\ UNCHANGED <<current, file, encSyms>>
           ELSE /\ file' = [file EXCEPT !.payload = @ \o Record(count, current)]
                /\ encSyms' = Append(encSyms, <<count, current>>)
                /\ current' = b
                /\ count' = 1
    /\ pos' = pos + 1
    /\ UNCHANGED <<input_vars, search, pc, model_vars, coder_vars, bw, tamper, huffman_vars,
                   decoder_vars>>

\* one iteration of while (in.get(c))
RleEncodeByte ==
    /\ codec = "rle" /\ pc = "encoding" /\ pos < Len(data)
    /\ LET b == data[pos + 1]
       IN  IF b = current /\ count < COUNT_MAX
           THEN /\ count' = count + 1
                /\ UNCHANGED <<current, file, encSyms>>
           ELSE /\ file' = [file EXCEPT !.payload = @ \o Record(count, current)]
                /\ encSyms' = Append(encSyms, <<count, current>>)
                /\ current' = b
                /\ count' = 1
    /\ pos' = pos + 1
    /\ UNCHANGED <<input_vars, search, pc, model_vars, coder_vars, bw, tamper, huffman_vars,
                   decoder_vars>>

\* after the loop: the last record
RleEncodeLast ==
    /\ codec = "rle" /\ pc = "encoding" /\ pos = Len(data)
    /\ file' = [file EXCEPT !.payload = @ \o Record(count, current)]
    /\ encSyms' = Append(encSyms, <<count, current>>)
    /\ pc' = "encoded"
    /\ UNCHANGED <<input_vars, search, pos, model_vars, coder_vars, bw, tamper, huffman_vars,
                   rle_vars, decoder_vars>>

\* rle_decode_file opens its files
RleDecodeStart ==
    /\ codec = "rle" /\ pc = "encoded"
    /\ pc' = "decoding"
    /\ UNCHANGED <<input_vars, search, pos, model_vars, coder_vars, bw, file, tamper,
                   huffman_vars, rle_vars, decoder_vars, encSyms>>

\* one iteration of the while (true) of rle_decode_file: one record
RleDecodeRecord ==
    /\ codec = "rle" /\ pc = "decoding"
    /\ LET n == read_u32_le(file.payload, br.pos)
       IN  IF n.status = "eof"
           THEN /\ pc' = "done" /\ result' = "ok"
                /\ UNCHANGED <<br, out, decSyms>>
           ELSE IF n.status = "truncation"
           THEN /\ pc' = "done" /\ result' = "truncation"
                /\ UNCHANGED <<br, out, decSyms>>
           ELSE IF n.value = 0
           THEN /\ pc' = "done" /\ result' = "corrupt"
                /\ br' = [br EXCEPT !.pos = br.pos + 4]
                /\ UNCHANGED <<out, decSyms>>
           ELSE IF br.pos + 4 >= Len(file.payload)
           THEN /\ pc' = "done" /\ result' = "truncation"
                /\ br' = [br EXCEPT !.pos = br.pos + 4]
                /\ UNCHANGED <<out, decSyms>>
           ELSE /\ out' = out \o [i \in 1..n.value |-> file.payload[br.pos + 5]]
                /\ decSyms' = Append(decSyms, <<n.value, file.payload[br.pos + 5]>>)
                /\ br' = [br EXCEPT !.pos = br.pos + 5]
                /\ UNCHANGED <<pc, result>>
    /\ UNCHANGED <<input_vars, search, pos, model_vars, coder_vars, bw, file, tamper,
                   huffman_vars, rle_vars, encSyms>>

NextRle ==
    \/ RleEncodeStart \/ RleEncodeByte \/ RleEncodeLast
    \/ RleDecodeStart \/ RleDecodeRecord

---------------------------------------------------------------------------
(* What can happen to a file between the encoder and the decoder           *)

TableWord(c) == IF c = "range" THEN range_coder_WORD ELSE FULL_RANGE

FileLen(f) == f.hdrLen + Len(f.payload)

\* removing the last k bytes of the file
truncated(f, k) ==
    IF k <= Len(f.payload)
    THEN [f EXCEPT !.payload = Prefix(f.payload, Len(f.payload) - k)]
    ELSE [f EXCEPT !.payload = <<>>, !.hdrLen = f.hdrLen - (k - Len(f.payload))]

\* the cuts followed: every cut inside the payload, and the cuts inside the
\* header that leave a length next to one the readers compare with
Cuts(f) ==
    {k \in 1..FileLen(f) :
        \/ k <= Len(f.payload)
        \/ FileLen(f) - k \in {0, MAGIC_LEN - 1, MAGIC_LEN, MAGIC_LEN + 3,
                               MAGIC_LEN + 4, HEADER_LEN - 1}}

\* a suffix of one or more bytes is removed from the file
Truncate ==
    /\ codec \in {"arith", "huffman", "rle"} /\ pc = "encoded" /\ tamper = "none"
    /\ \E k \in Cuts(file) : file' = truncated(file, k)
    /\ tamper' = "truncated"
    /\ UNCHANGED <<input_vars, search, pc, pos, model_vars, coder_vars, bw, huffman_vars,
                   rle_vars, decoder_vars, encSyms>>

\* header tables whose entries sum to more than MAX_TOTAL: the encoder's
\* table with symbol 0 raised to bring the sum to MAX_TOTAL + 1, and a table
\* whose sum passes the width of an entry (word - 1, 1, 0, .., 0, 1)
OverTotalTables(c, f) ==
    {[f EXCEPT ![1] = @ + MaxTotalOf(c) + 1 - SumSeq(f, Len(f))],
     Table(LAMBDA i : IF i = 1 THEN TableWord(c) - 1
                      ELSE IF i = 2 \/ i = SYMBOL_LIMIT THEN 1 ELSE 0,
           1, SYMBOL_LIMIT)}

\* the header of an interval coder's file is replaced: another count, or a
\* table over the limit
TamperHeader ==
    /\ codec \in {"arith", "range"} /\ pc = "encoded" /\ tamper = "none"
    /\ \/ \E n \in {0, SYMBOL_LIMIT - 1, SYMBOL_LIMIT + 1, 1025} :
              file' = [file EXCEPT !.count = n]
       \/ \E t \in OverTotalTables(codec, file.freq) :
              file' = [file EXCEPT !.freq = t]
    /\ tamper' = "header"
    /\ UNCHANGED <<input_vars, search, pc, pos, model_vars, coder_vars, bw, huffman_vars,
                   rle_vars, decoder_vars, encSyms>>

---------------------------------------------------------------------------
(* Specifications *)

Init == \E c \in {"arith", "range", "huffman", "rle"} : InitOf(c)

Next == NextArith \/ NextRange \/ NextHuffman \/ NextRle \/ Truncate \/ TamperHeader

Spec == Init /\ [][Next]_vars

SpecBits == InitOf("bits") /\ [][NextBits]_vars

SpecScale == (InitOf("scale_arith") \/ InitOf("scale_range")) /\ [][NextScale]_vars

SpecArith == InitOf("arith") /\ [][NextArith]_vars

SpecRange == InitOf("range") /\ [][NextRange]_vars

SpecHuffman == InitOf("huffman") /\ [][NextHuffman]_vars

SpecRle == InitOf("rle") /\ [][NextRle]_vars

---------------------------------------------------------------------------
(* Properties *)

ceil8(n) == (n + 7) \div 8

\* C9: n write_bit calls and flush() emit ceil(n/8) bytes, the first bit
\* written being the top bit of the first byte and the padding bits zero; a
\* BitReader over these bytes returns the written bits in order from its first
\* n calls and 0 from every later call, and eof() is true exactly from the
\* first read attempted past the last emitted byte.
BitOrderingRoundTrip ==
    (codec = "bits" /\ pc = "reading") =>
        /\ Len(file.payload) = ceil8(Len(data))
        /\ Len(data) > 0 => file.payload[1] \div 128 = data[1]
        /\ Len(data) % 8 # 0 =>
               file.payload[Len(file.payload)] % (2 ^ (8 - (Len(data) % 8))) = 0
        /\ \A i \in 1..Len(decSyms) :
               decSyms[i] = IF i <= Len(data) THEN data[i] ELSE 0
        /\ eof(br) <=> Len(decSyms) > 8 * Len(file.payload)

\* a 9-bit sequence with a 1 in the partial byte, read back past its end
BitOrderingWitness ==
    /\ codec = "bits" /\ pc = "reading"
    /\ Len(data) = 9 /\ data[1] = 1 /\ data[9] = 1
    /\ Len(decSyms) = 18 /\ eof(br)

\* C6: after scale_frequencies the entries sum to at most MAX_TOTAL.
ScaledTotalBounded ==
    (codec \in {"scale_arith", "scale_range"} /\ pc = "done") =>
        SumSeq(freq, Len(freq)) <= MaxTotalOf(codec)

\* C7: on a table built from an input (byte counts, EOS entry 1),
\* scale_frequencies keeps every positive entry positive and the EOS entry
\* at least 1.
ScalingKeepsSymbols ==
    (codec \in {"scale_arith", "scale_range"} /\ pc = "done"
        /\ data[SYMBOL_LIMIT] = 1) =>
        /\ \A i \in 1..SYMBOL_LIMIT : data[i] > 0 => freq[i] > 0
        /\ freq[EOF_SYMBOL + 1] >= 1

\* a table over the limit in which symbol 1 and EOS scale to less than 1
ScalingKeepsSymbolsWitness ==
    /\ codec \in {"scale_arith", "scale_range"} /\ pc = "done"
    /\ data[SYMBOL_LIMIT] = 1 /\ data[2] = 1 /\ data[1] = 4 * MaxTotalOf(codec) + 1
    /\ freq[2] = 1 /\ freq[SYMBOL_LIMIT] = 1 /\ freq[1] < data[1]

RangeRoundTrip ==
    (codec = "range" /\ tamper = "none") =>
        /\ pc = "decoding" => IsPrefix(decSyms, encSyms) /\ decSyms # encSyms
        /\ pc = "done" => result = "ok" /\ out = data /\ decSyms = encSyms

\* the registers never leave high >= low - 1 (mod the word), so high - low + 1
\* is never negative and the 64-bit container of range never wraps
RangeRegistersSane ==
    codec = "range" => high - low + 1 >= 0

RleRoundTrip ==
    (codec = "rle" /\ tamper = "none") =>
        /\ (pc = "encoded" /\ data = <<>>) => file.payload = <<>>
        /\ pc = "decoding" => IsPrefix(out, data)
        /\ pc = "done" => result = "ok" /\ out = data

\* a decoded input with a run longer than COUNT_MAX, written as two records
RleRoundTripWitness ==
    /\ codec = "rle" /\ tamper = "none" /\ pc = "done" /\ result = "ok"
    /\ Len(data) = MaxLen /\ \A i \in 1..MaxLen : data[i] = data[1]
    /\ out = data /\ Len(encSyms) >= 2

Errors == {"truncation", "corrupt", "corrupt_or_truncated", "bad_magic",
           "bad_header", "invalid_stream"}

\* C5: decode of an arithmetic, Huffman or RLE file that lost a suffix of one
\* or more bytes ends with an error and never with success.
TruncationDetected ==
    (codec \in {"arith", "huffman", "rle"} /\ tamper = "truncated" /\ pc = "done") =>
        result \in Errors

\* C8: the symbols encoded are the input bytes in order and then EOS once;
\* the decoder of that stream decodes EOS as the symbol after the last input
\* byte and nowhere before, stops there, and has written one byte for every
\* other symbol decoded.
EosUniqueness ==
    (codec \in {"huffman", "arith", "range"} /\ tamper = "none") =>
        /\ pc \in {"encoded", "decoding", "done"} => encSyms = Append(data, EOF_SYMBOL)
        /\ pc \in {"decoding", "done"} =>
               /\ \A i \in 1..Len(decSyms) :
                      decSyms[i] = EOF_SYMBOL <=> i = Len(data) + 1
               /\ Len(decSyms) <= Len(data) + 1
               /\ Len(decSyms) = Len(data) + 1 <=> pc = "done"
               /\ Len(out) = Len(decSyms) - (IF pc = "done" THEN 1 ELSE 0)

\* C10: decode of an arithmetic or range file whose header count is not 257,
\* or whose header frequencies sum to more than MAX_TOTAL, ends with a header
\* error before any symbol is decoded.
BadHeaderRejected ==
    (codec \in {"arith", "range"} /\ tamper = "header" /\ pc \in {"decoding", "done"}) =>
        /\ decSyms = <<>> /\ out = <<>>
        /\ pc = "done" /\ result \in {"bad_header", "invalid_stream"}

---------------------------------------------------------------------------
(* Decoders on a file that no encoder of this repository wrote             *)

\* records followed per stream
MaxRecords == 2

\* the decoder of codec c is handed the file f
InitFile(c, files) ==
    /\ codec = c
    /\ pc = "encoded"
    /\ data = <<>>
    /\ pos = 0
    /\ freq = NoTable
    /\ cumulative = NoTable
    /\ low = 0
    /\ high = 0
    /\ pendingBits = 0
    /\ code = 0
    /\ search = NoSearch
    /\ bw = NoWriter
    /\ br = NoReader
    /\ file \in files
    /\ tamper = "stream"
    /\ build \in (IF c = "huffman" THEN {"oldest", "newest"} ELSE {"oldest"})
    /\ tree = NoTree
    /\ node = 0
    /\ pq = {}
    /\ heap = NoHeap
    /\ current = 0
    /\ count = 0
    /\ out = <<>>
    /\ result = "none"
    /\ encSyms = <<>>
    /\ decSyms = <<>>

RECURSIVE Flatten(_)
Flatten(ss) == IF ss = <<>> THEN <<>> ELSE Head(ss) \o Flatten(Tail(ss))

\* byte streams handed to rle_decode_file: up to MaxRecords five-byte groups
\* with a count of 0, 1, 2 or 257, then up to four more bytes
RleStreams ==
    LET groups == {write_u32_le(n) \o <<v>> : n \in {0, 1, 2, 257}, v \in {0, 255}}
    IN  {Flatten(g) \o t : g \in SeqsUpTo(groups, MaxRecords), t \in SeqsUpTo({0, 1}, 4)}

SpecRleDecode ==
    /\ InitFile("rle", {[NoFile EXCEPT !.payload = s] : s \in RleStreams})
    /\ [][RleDecodeStart \/ RleDecodeRecord]_vars

\* the count field of the r-th five-byte group of a stream
CountField(bytes, r) ==
    bytes[5 * r - 4] + 256 * bytes[5 * r - 3] + 65536 * bytes[5 * r - 2]
        + 16777216 * bytes[5 * r - 1]

\* the first n five-byte groups of a stream, expanded
RECURSIVE Expansion(_, _)
Expansion(bytes, n) ==
    IF n = 0 THEN <<>>
    ELSE Expansion(bytes, n - 1) \o [i \in 1..CountField(bytes, n) |-> bytes[5 * n]]

\* the number of leading complete groups of a stream with a count above 0
RECURSIVE ValidRecords(_, _)
ValidRecords(bytes, n) ==
    IF 5 * (n + 1) <= Len(bytes) /\ CountField(bytes, n + 1) > 0
    THEN ValidRecords(bytes, n + 1)
    ELSE n

\* C11: rle_decode_file on any byte stream ends without an error exactly when
\* the stream is a concatenation of complete records with counts above 0; it
\* ends with a corruption error at the first count of 0 and with a truncation
\* error when 1 to 4 bytes follow the last complete record (a count of 0 read
\* from the last four bytes is a count of 0); the output is at every moment,
\* and at the end, the expansion of the records before that point.
RleDecodeOutcome ==
    (codec = "rle" /\ tamper = "stream") =>
        LET s == file.payload
            v == ValidRecords(s, 0)
            rest == Len(s) - 5 * v
        IN  /\ pc = "decoding" =>
                   /\ br.pos % 5 = 0 /\ br.pos \div 5 <= v
                   /\ out = Expansion(s, br.pos \div 5)
            /\ pc = "done" =>
                   /\ out = Expansion(s, v)
                   /\ result = "ok" <=> rest = 0
                   /\ result = "corrupt" <=> (rest >= 4 /\ CountField(s, v + 1) = 0)
                   /\ result = "truncation" <=>
                          (rest \in 1..4 /\ ~(rest = 4 /\ CountField(s, v + 1) = 0))

\* a record of 257 copies was written, then a count with no value byte
RleDecodeOutcomeWitness ==
    /\ codec = "rle" /\ tamper = "stream" /\ pc = "done"
    /\ result = "truncation" /\ Len(out) = 258
    /\ Len(file.payload) = 14

\* the original wording of C11: 1 to 4 bytes after the last complete record
\* always give a truncation error
RleTailIsTruncation ==
    (codec = "rle" /\ tamper = "stream" /\ pc = "done") =>
        ((Len(file.payload) % 5 # 0
             /\ ValidRecords(file.payload, 0) = Len(file.payload) \div 5)
            => result = "truncation")

---------------------------------------------------------------------------
(* Huffman decompress_file on any payload after a valid header             *)

\* payload bytes followed per file
MaxPayload == 2
\* calls of decode_symbol followed when looking for a repeated decoder state
MaxCycle == 4

\* the 257-entry table with the given entries for symbols 0, 1, 255 and EOS
SparseTable(a, b, c, e) ==
    Table(LAMBDA i : IF i = 1 THEN a ELSE IF i = 2 THEN b ELSE IF i = 256 THEN c
                     ELSE IF i = SYMBOL_LIMIT THEN e ELSE 0, 1, SYMBOL_LIMIT)

\* header tables: all zero, EOS alone, one byte alone, with and without EOS,
\* EOS lighter and heavier than the bytes
HuffTables ==
    {SparseTable(a, b, c, e) : a \in {0, 1, 2}, b \in {0, 1}, c \in {0, 1}, e \in {0, 1, 3}}

HuffPayloads == SeqsUpTo({0, 85, 128, 255}, MaxPayload)

HuffFiles ==
    {[Header("HFMN", t) EXCEPT !.payload = p] : t \in HuffTables, p \in HuffPayloads}

\* decompress_file at its while (true): the header read, the tree built, the
\* walker at the root, nothing read from the payload
InitHuffDecoding ==
    /\ codec = "huffman"
    /\ pc = "decoding"
    /\ data = <<>>
    /\ pos = 0
    /\ file \in HuffFiles
    /\ huffman_read_frequencies(file) = "ok"
    /\ freq = file.freq
    /\ cumulative = NoTable
    /\ low = 0
    /\ high = 0
    /\ pendingBits = 0
    /\ code = 0
    /\ search = NoSearch
    /\ bw = NoWriter
    /\ br = NoReader
    /\ tamper = "stream"
    /\ build \in {"oldest", "newest"}
    /\ tree = build_tree(file.freq, build)
    /\ node = tree.root
    /\ pq = {}
    /\ heap = Allocated(tree)
    /\ current = 0
    /\ count = 0
    /\ out = <<>>
    /\ result = "none"
    /\ encSyms = <<>>
    /\ decSyms = <<>>

\* the loop runs to the return of decompress_file
SpecHuffDecode ==
    /\ InitHuffDecoding
    /\ [][HuffDecodeBit]_vars
    /\ WF_vars(HuffDecodeBit)

\* while decoding the walker is at a node, EOS has not been decoded, and the
\* reader is not at its end with the walker at the root after a byte; at the
\* return, success goes with EOS as the last symbol decoded
HuffDecodeRule ==
    (codec = "huffman" /\ tamper = "stream") =>
        /\ pc = "decoding" =>
               /\ node # 0 /\ EOF_SYMBOL \notin {decSyms[i] : i \in 1..Len(decSyms)}
               /\ ~(br.reachedEof /\ node = tree.root /\ out # <<>>)
        /\ pc = "done" =>
               /\ result \in {"ok", "corrupt_or_truncated"}
               /\ result = "ok" <=>
                      (decSyms # <<>> /\ decSyms[Len(decSyms)] = EOF_SYMBOL)

\* C12: for any payload after a valid header decompress_file returns, with
\* success if and only if the walker reached the EOS leaf; a null child, and
\* the reader's end with the walker back at the root before EOS, give an error.
HuffDecodeTerminates == [](HuffDecodeRule) /\ <>(pc = "done")

\* the payload ended with the walker back at the root after two bytes written
HuffDecodeTerminatesWitness ==
    /\ codec = "huffman" /\ tamper = "stream" /\ pc = "done"
    /\ result = "corrupt_or_truncated" /\ br.reachedEof
    /\ Len(out) >= 2 /\ Len(file.payload) = MaxPayload

---------------------------------------------------------------------------
(* build_tree, one queue operation at a time                               *)

\* the pushes of build_tree, its return on an empty queue, and the parent it
\* puts over a single leaf
BuildTreePush ==
    /\ codec = "build_tree" /\ pc = "start"
    /\ LET leaves == Leaves(data, 1, Len(data))
       IN  IF Len(leaves) = 0
           THEN /\ tree' = [nodes |-> <<Node(EOF_SYMBOL, 1, 0, 0)>>, root |-> 1]
                /\ pq' = {}
                /\ pc' = "done"
           ELSE IF Len(leaves) = 1
           THEN /\ tree' = [nodes |-> Append(leaves, Node(0, leaves[1].freq, 1, 0)),
                            root |-> 0]
                /\ pq' = {2}
                /\ pc' = "merging"
           ELSE /\ tree' = [nodes |-> leaves, root |-> 0]
                /\ pq' = 1..Len(leaves)
                /\ pc' = "merging"
    /\ heap' = Allocated(tree')
    /\ UNCHANGED <<input_vars, search, pos, model_vars, coder_vars, bw, file, tamper, node,
                   rle_vars, decoder_vars, encSyms>>

\* one iteration of while (pq.size() > 1)
BuildTreeMerge ==
    /\ codec = "build_tree" /\ pc = "merging" /\ Cardinality(pq) > 1
    /\ LET m == merge_step(tree.nodes, pq, build)
       IN  /\ tree' = [nodes |-> m.nodes, root |-> 0]
           /\ pq' = m.q
    /\ heap' = Allocated(tree')
    /\ UNCHANGED <<input_vars, search, pc, pos, model_vars, coder_vars, bw, file, tamper,
                   node, rle_vars, decoder_vars, encSyms>>

\* return pq.top()
BuildTreeReturn ==
    /\ codec = "build_tree" /\ pc = "merging" /\ Cardinality(pq) = 1
    /\ tree' = [tree EXCEPT !.root = top(tree.nodes, pq, build)]
    /\ pq' = {}
    /\ pc' = "done"
    /\ UNCHANGED <<input_vars, search, pos, model_vars, coder_vars, bw, file, tamper, node, heap,
                   rle_vars, decoder_vars, encSyms>>

NextBuildTree == BuildTreePush \/ BuildTreeMerge \/ BuildTreeReturn

SpecBuildTree == InitOf("build_tree") /\ [][NextBuildTree]_vars

\* two entries of the queue neither of which comes before the other
Equivalent(nodes, i, j) ==
    i # j /\ ~NodeCmp(nodes[i], nodes[j]) /\ ~NodeCmp(nodes[j], nodes[i])

\* C13: at every removal of build_tree no two nodes of the queue are
\* equivalent under NodeCmp, and the tree returned is the same whichever of
\* equivalent entries the queue yields first.
TieBreakTotal ==
    codec = "build_tree" =>
        /\ pc = "merging" => \A i \in pq : \A j \in pq : ~Equivalent(tree.nodes, i, j)
        /\ pc = "done" => /\ tree = build_tree(data, "oldest")
                          /\ tree = build_tree(data, "newest")

---------------------------------------------------------------------------
(* The error returns of the Huffman program that follow build_tree         *)

\* compress_file cannot open a file: the input (build_frequencies_from_file
\* has then returned the all-zero table) or the output
HuffCompressOpenFails ==
    /\ codec = "huffman" /\ pc = "start"
    /\ \E which \in {"in", "out"} :
           LET f == IF which = "in" THEN SparseTable(0, 0, 0, 0)
                    ELSE huffman_build_frequencies_from_file(data)
               t == build_tree(f, build)
           IN  /\ freq' = f
               /\ heap' = Freed(Allocated(t), t)
    /\ tree' = NoTree
    /\ pc' = "done"
    /\ result' = "io_error"
    /\ UNCHANGED <<input_vars, search, pos, cumulative, coder_vars, bw, br, file, tamper, node,
                   pq, rle_vars, out, decSyms, encSyms>>

\* compress_file finds in.bad() or !out after the flush
HuffCompressWriteFails ==
    /\ codec = "huffman" /\ pc = "encoding" /\ pos = Len(data)
    /\ bw' = flush(write_bits(bw, codes(tree, EOF_SYMBOL), 1))
    /\ encSyms' = Append(encSyms, EOF_SYMBOL)
    /\ heap' = Freed(heap, tree)
    /\ tree' = NoTree
    /\ pc' = "done"
    /\ result' = "io_error"
    /\ UNCHANGED <<input_vars, search, pos, model_vars, coder_vars, br, file, tamper, node, pq,
                   rle_vars, out, decSyms>>

\* decompress_file cannot open its output, after build_tree
HuffDecompressOpenFails ==
    /\ codec = "huffman" /\ pc = "encoded"
    /\ file.hdrLen >= MAGIC_LEN /\ file.magic = "HFMN"
    /\ huffman_read_frequencies(file) = "ok"
    /\ LET t == build_tree(file.freq, build)
       IN  heap' = Freed(Allocated(t), t)
    /\ freq' = file.freq
    /\ pc' = "done"
    /\ result' = "io_error"
    /\ UNCHANGED <<input_vars, search, pos, cumulative, coder_vars, bw, br, file, tamper, tree,
                   node, pq, rle_vars, out, decSyms, encSyms>>

\* out.put of a decoded byte fails: ok = false, break
HuffDecodeWriteFails ==
    /\ codec = "huffman" /\ pc = "decoding"
    /\ LET rb == read_bit(br, file.payload)
           n == IF rb.bit = 0 THEN tree.nodes[node].left ELSE tree.nodes[node].right
       IN  /\ n # 0 /\ is_leaf(tree.nodes[n]) /\ tree.nodes[n].symbol # EOF_SYMBOL
           /\ br' = rb.reader
    /\ decSyms' = decSyms
    /\ heap' = Freed(heap, tree)
    /\ tree' = NoTree /\ node' = 0
    /\ pc' = "done"
    /\ result' = Status(FALSE, FALSE)
    /\ UNCHANGED <<input_vars, search, pos, model_vars, coder_vars, bw, file, tamper, pq,
                   rle_vars, out, encSyms>>

NextHuffMemory ==
    \/ NextHuffman \/ Truncate
    \/ HuffCompressOpenFails \/ HuffCompressWriteFails
    \/ HuffDecompressOpenFails \/ HuffDecodeWriteFails

SpecHuffMemory == InitOf("huffman") /\ [][NextHuffMemory]_vars

\* C14: when compress_file or decompress_file has returned, every node that
\* build_tree allocated in the invocation has been deleted exactly once; no
\* node is deleted before that.
NodesReleased ==
    codec = "huffman" =>
        /\ pc \in {"encoded", "done"} =>
               /\ Len(heap.deleted) = Cardinality(heap.allocated)
               /\ {heap.deleted[i] : i \in 1..Len(heap.deleted)} = heap.allocated
        /\ pc \in {"encoding", "decoding"} =>
               /\ heap.deleted = <<>>
               /\ heap.allocated = 1..Len(tree.nodes) /\ heap.allocated # {}

\* an error return of decompress_file with a tree of three leaves
NodesReleasedWitness ==
    /\ codec = "huffman" /\ pc = "done" /\ result = "corrupt_or_truncated"
    /\ Cardinality(heap.allocated) >= 5 /\ Len(heap.deleted) >= 5

---------------------------------------------------------------------------
(* The code table of the tree that build_tree returned                     *)

\* the symbols of nonzero frequency of a table
Coded(f) == {s \in 0..(SYMBOL_LIMIT - 1) : f[s + 1] # 0}

\* C15: for a frequency table with a nonzero entry, build_tree and then
\* build_codes give every symbol of nonzero frequency one code, of length at
\* least 1 (the code "0" when it is the only such symbol), and no code is a
\* prefix of the code of another symbol.
CodeTableWellFormed ==
    (codec = "build_tree" /\ pc = "done" /\ Coded(data) # {}) =>
        LET cs == build_codes(tree, tree.root, <<>>)
        IN  /\ \A s \in Coded(data) :
                   /\ Cardinality({c \in cs : c.symbol = s}) = 1
                   /\ Len(codes(tree, s)) >= 1
                   /\ Cardinality(Coded(data)) = 1 => codes(tree, s) = <<0>>
            /\ \A c \in cs : \A d \in cs :
                   c # d => c.symbol # d.symbol /\ ~IsPrefix(c.code, d.code)

\* the table of one symbol, and a table of three symbols
CodeTableWellFormedWitness ==
    /\ codec = "build_tree" /\ pc = "done"
    /\ \/ /\ Coded(data) = {1}
          /\ codes(tree, 1) = <<0>>
       \/ /\ Cardinality(Coded(data)) = 3
          /\ \E s \in Coded(data) : Len(codes(tree, s)) = 2

---------------------------------------------------------------------------
(* The records rle_encode_file writes                                      *)

\* C16: rle_encode_file writes no record for the empty input; for any other
\* input every record has a count from 1 to the cap, the counts add up to the
\* length of the input, the records expanded in order are the input, and two
\* adjacent records have the same value only when the earlier one's count is
\* the cap.
RleOutputShape ==
    (codec = "rle" /\ pc \in {"encoded", "decoding", "done"}) =>
        LET recs == encSyms
            runs == Flatten([r \in 1..Len(recs) |-> [i \in 1..recs[r][1] |-> recs[r][2]]])
            counts == [r \in 1..Len(recs) |-> recs[r][1]]
        IN  /\ Len(data) = 0 <=> recs = <<>>
            /\ file.payload = Flatten([r \in 1..Len(recs) |-> Record(recs[r][1], recs[r][2])])
            /\ \A r \in 1..Len(recs) : 1 <= recs[r][1] /\ recs[r][1] <= COUNT_MAX
            /\ SumSeq(counts, Len(counts)) = Len(data)
            /\ runs = data
            /\ \A r \in 1..(Len(recs) - 1) :
                   recs[r][2] = recs[r + 1][2] => recs[r][1] = COUNT_MAX

\* a run longer than the cap: two records of the same value
RleOutputShapeWitness ==
    /\ codec = "rle" /\ pc = "encoded"
    /\ Len(encSyms) = 2
    /\ encSyms[1][2] = encSyms[2][2]
    /\ encSyms[1][1] = COUNT_MAX /\ encSyms[2][1] = 1

---------------------------------------------------------------------------
(* The binary search of decode_symbol, one iteration at a time             *)

\* cumulative tables of 258 entries, nondecreasing from 0, with runs of equal
\* entries (symbols of frequency 0) before, between and after the steps
LookupTables ==
    {build_cumulative(SparseTable(a, b, c, e), FULL_RANGE) :
        a \in {0, 1, 2}, b \in {0, 1, 2}, c \in {0, 1, 2}, e \in {0, 1, 2}}

\* lo = 0, hi = cumulative.size() - 1, for every value below the total
InitLookup ==
    /\ codec = "find_symbol"
    /\ pc = "searching"
    /\ data = <<>>
    /\ pos = 0
    /\ freq = NoTable
    /\ cumulative \in {c \in LookupTables : c # build_cumulative(SparseTable(0, 0, 0, 0), FULL_RANGE)}
    /\ low = 0
    /\ high = 0
    /\ pendingBits = 0
    /\ code = 0
    /\ search \in {[lo |-> 0, hi |-> Len(cumulative) - 1, value |-> v] :
                      v \in 0..(Total(cumulative) - 1)}
    /\ bw = NoWriter
    /\ br = NoReader
    /\ file = NoFile
    /\ tamper = "none"
    /\ build = "oldest"
    /\ tree = NoTree
    /\ node = 0
    /\ pq = {}
    /\ heap = NoHeap
    /\ current = 0
    /\ count = 0
    /\ out = <<>>
    /\ result = "none"
    /\ encSyms = <<>>
    /\ decSyms = <<>>

FindSymbolStepUpper ==
    /\ codec = "find_symbol" /\ pc = "searching"
    /\ search.lo + 1 < search.hi
    /\ LET mid == search.lo + (search.hi - search.lo) \div 2
       IN  IF Cum(cumulative, mid) >= search.value
           THEN search' = [search EXCEPT !.hi = mid]
           ELSE search' = [search EXCEPT !.lo = mid]
    /\ pos' = pos + 1
    /\ UNCHANGED <<input_vars, pc, model_vars, coder_vars, bw, file, tamper, huffman_vars,
                   rle_vars, decoder_vars, encSyms>>

\* one iteration of while (lo + 1 < hi)
FindSymbolStep ==
    /\ codec = "find_symbol" /\ pc = "searching"
    /\ search.lo + 1 < search.hi
    /\ LET mid == search.lo + (search.hi - search.lo) \div 2
       IN  IF Cum(cumulative, mid) > search.value
           THEN search' = [search EXCEPT !.hi = mid]
           ELSE search' = [search EXCEPT !.lo = mid]
    /\ pos' = pos + 1
    /\ UNCHANGED <<input_vars, pc, model_vars, coder_vars, bw, file, tamper, huffman_vars,
                   rle_vars, decoder_vars, encSyms>>

\* symbol = lo
FindSymbolReturn ==
    /\ codec = "find_symbol" /\ pc = "searching"
    /\ ~(search.lo + 1 < search.hi)
    /\ decSyms' = <<search.lo>>
    /\ pc' = "done"
    /\ UNCHANGED <<input_vars, search, pos, model_vars, coder_vars, bw, file, tamper,
                   huffman_vars, rle_vars, br, out, result, encSyms>>

NextLookup == FindSymbolStep \/ FindSymbolReturn

SpecLookup == InitLookup /\ [][NextLookup]_vars /\ WF_vars(NextLookup)

\* C[lo] <= value < C[hi] throughout; the symbol returned is the only s with
\* C[s] <= value < C[s+1], it is at most 256 and its frequency is not 0; it
\* is what find_symbol computes
LookupRule ==
    codec = "find_symbol" =>
        /\ Cum(cumulative, search.lo) <= search.value
        /\ search.value < Cum(cumulative, search.hi)
        /\ pc = "done" =>
               LET s == decSyms[1]
               IN  /\ s \in 0..(SYMBOL_LIMIT - 1)
                   /\ Cum(cumulative, s) <= search.value
                   /\ search.value < Cum(cumulative, s + 1)
                   /\ \A t \in 0..(SYMBOL_LIMIT - 1) :
                          (Cum(cumulative, t) <= search.value
                              /\ search.value < Cum(cumulative, t + 1)) => t = s
                   /\ Cum(cumulative, s + 1) - Cum(cumulative, s) > 0
                   /\ s = find_symbol(cumulative, search.value, 0, Len(cumulative) - 1)

\* C17: on a nondecreasing cumulative table of 258 entries that starts at 0,
\* and a value below its last entry, the binary search of decode_symbol keeps
\* C[lo] <= value < C[hi], terminates, and returns the unique symbol s with
\* C[s] <= value < C[s+1], whose frequency is therefore not 0.
LookupFindsSymbol == [](LookupRule) /\ <>(pc = "done")

\* a search that went both ways and skipped symbols of frequency 0 on either
\* side of the one it returns
LookupFindsSymbolWitness ==
    /\ codec = "find_symbol" /\ pc = "done"
    /\ decSyms[1] = SYMBOL_LIMIT - 2
    /\ Cum(cumulative, decSyms[1]) > 0
    /\ Cum(cumulative, decSyms[1] + 1) < Total(cumulative)

---------------------------------------------------------------------------
(* ArithmeticEncoder on any table whose total is at most MAX_TOTAL         *)

\* frequency tables with totals from 4 up to MAX_TOTAL in which the three
\* byte values and EOS have a nonzero frequency
IntervalTables ==
    {SparseTable(a, b, c, e) :
        a \in {1, MAX_TOTAL \div 4 + 1}, b \in {1, MAX_TOTAL \div 4 + 1},
        c \in {1, MAX_TOTAL \div 4 - 1}, e \in {1, MAX_TOTAL \div 4 - 1}}

\* compress_file at its symbol loop, the encoder just constructed
InitArithEncoding ==
    /\ codec = "arith"
    /\ pc = "encoding"
    /\ data \in SeqsUpTo(ByteValues, MaxLen)
    /\ pos = 0
    /\ freq \in IntervalTables
    /\ cumulative = build_cumulative(freq, FULL_RANGE)
    /\ low = ArithmeticEncoder.low
    /\ high = ArithmeticEncoder.high
    /\ pendingBits = ArithmeticEncoder.pendingBits
    /\ code = 0
    /\ search = NoSearch
    /\ bw = ArithmeticEncoder.w
    /\ br = NoReader
    /\ file = Header("AENC", freq)
    /\ tamper = "none"
    /\ build = "oldest"
    /\ tree = NoTree
    /\ node = 0
    /\ pq = {}
    /\ heap = NoHeap
    /\ current = 0
    /\ count = 0
    /\ out = <<>>
    /\ result = "none"
    /\ encSyms = <<>>
    /\ decSyms = <<>>

SpecArithEncoder == InitArithEncoding /\ [][ArithEncodeByte \/ ArithEncodeEOS]_vars

\* C18: with a total of at most MAX_TOTAL, after every encode_symbol on a
\* symbol of nonzero frequency 0 <= low < HALF <= high < FULL and not
\* (low >= Q1 and high < Q3); so the range exceeds Q1, which is at least the
\* total, the sub-interval of every symbol of nonzero frequency is non-empty,
\* and range * C[s+1] stays below FULL * MAX_TOTAL, inside the container.
ArithIntervalInvariant ==
    (codec = "arith" /\ pc \in {"encoding", "encoded"}
        /\ Total(cumulative) <= MAX_TOTAL) =>
        LET range == high - low + 1
            total == Total(cumulative)
        IN  /\ 0 <= low /\ low < HALF_RANGE
            /\ HALF_RANGE <= high /\ high < FULL_RANGE
            /\ ~(low >= FIRST_QUARTER /\ high < THIRD_QUARTER)
            /\ range > FIRST_QUARTER /\ FIRST_QUARTER >= total
            /\ \A s \in 0..(SYMBOL_LIMIT - 1) :
                   Cum(cumulative, s) < Cum(cumulative, s + 1) =>
                       /\ low + (range * Cum(cumulative, s)) \div total
                              <= low + (range * Cum(cumulative, s + 1)) \div total - 1
                       /\ range * Cum(cumulative, s + 1) <= FULL_RANGE * MAX_TOTAL

\* a table of total MAX_TOTAL, and calls that left pending bits and a range
\* below HALF
ArithIntervalInvariantWitness ==
    /\ codec = "arith" /\ pc = "encoding" /\ pos >= 2
    /\ Total(cumulative) = MAX_TOTAL
    /\ pendingBits > 0
    /\ high - low + 1 < HALF_RANGE

---------------------------------------------------------------------------
(* The registers of RangeEncoder at the start of each encode_symbol        *)

\* C19: with a total of at most MAX_TOTAL, at the start of every call of
\* RangeEncoder::encode_symbol low <= high and high - low + 1 >= total, so
\* that every symbol of nonzero frequency gets a non-empty sub-interval.
RangeIntervalInvariant ==
    (codec = "range" /\ pc = "encoding"
        /\ Total(cumulative) <= range_coder_MAX_TOTAL) =>
        /\ low <= high
        /\ high - low + 1 >= Total(cumulative)

---------------------------------------------------------------------------
(* The interval decoders on any payload behind a valid header              *)

\* files with a valid magic and a 257-entry table, and any payload of up to
\* MaxPayload bytes (digits, for the range coder), the empty one included
IntervalFiles(c) ==
    IF c = "arith"
    THEN {[Header("AENC", t) EXCEPT !.payload = p] :
             t \in HuffTables, p \in HuffPayloads}
    ELSE {[Header("RCNC", t) EXCEPT !.payload = p] :
             t \in HuffTables,
             p \in SeqsUpTo({0, 1, range_coder_DIGIT - 1}, MaxPayload)}

NextIntervalDecode ==
    \/ ArithDecompressStart \/ ArithDecodeSymbol
    \/ RangeDecodeStart \/ RangeDecodeSymbol

SpecIntervalDecode ==
    /\ \/ InitFile("arith", IntervalFiles("arith"))
       \/ InitFile("range", IntervalFiles("range"))
    /\ [][NextIntervalDecode]_vars

\* the decoder, started in state d, is back in state from within k calls
\* none of which returned EOS
RECURSIVE ArithCycles(_, _, _)
ArithCycles(from, d, k) ==
    /\ k > 0
    /\ LET ds == decode_symbol(d, cumulative, file.payload)
       IN  /\ ds.symbol # EOF_SYMBOL
           /\ ds.dec = from \/ ArithCycles(from, ds.dec, k - 1)

RECURSIVE RangeCycles(_, _, _)
RangeCycles(from, d, k) ==
    /\ k > 0
    /\ LET ds == range_coder_decode_symbol(d, cumulative, file.payload)
       IN  /\ ds.symbol # EOF_SYMBOL
           /\ ds.dec = from \/ RangeCycles(from, ds.dec, k - 1)

\* C20: behind a valid magic and header the symbol loops of decompress_file
\* and of range_coder::decode decode EOS after finitely many symbols,
\* whatever the payload.  The loops are deterministic in the decoder's
\* registers and reader, so a loop that stops is never, some calls later and
\* with no EOS returned, in the state it was in.
IntervalDecodeTerminates ==
    /\ (codec = "arith" /\ pc = "decoding") => ~ArithCycles(Decoder, Decoder, MaxCycle)
    /\ (codec = "range" /\ pc = "decoding") => ~RangeCycles(RDecoder, RDecoder, MaxCycle)

====
